---- MODULE Spec2Model ----
(***************************************************************************)
(* Boids flocking (src/boids.py): the flock update update_boids, the       *)
(* helpers Boid.edges / Boid.move / distance / within_fov and the main     *)
(* loop with its rule-order palette.                                       *)
(*                                                                         *)
(* Arithmetic.  pygame.Vector2 holds doubles.  Here every coordinate is an *)
(* integer count of 1/Unit pixels (fixed point), and every operation whose *)
(* exact result is not on that grid (the multiplications by 0.05 and 0.01, *)
(* the divisions by len(neighbors), scale_to_length) is rounded to the     *)
(* nearest grid value, as a double operation is rounded to the nearest     *)
(* double.  Sums and differences of grid values are exact.  Comparisons of *)
(* lengths are made on the squares.                                        *)
(***************************************************************************)
EXTENDS Integers, Sequences, FiniteSets

VARIABLES
    boids,          \* main: the list boids; a sequence of [position, velocity]
    FOV_ANGLE,      \* the module constant FOV_ANGLE: 270, or -1 for 360 degrees
    current_order,  \* main: index into rule_orders (0-based, as in the source)
    running,        \* main: the loop flag
    rule_order,     \* the argument rule_order of the latest update_boids call
    pc,             \* position of the driver: "events", "update", "done", "api", "unit"
    ticks           \* number of update_boids calls made so far

vars == <<boids, FOV_ANGLE, current_order, running, rule_order, pc, ticks>>

---------------------------------------------------------------------------
(* Constants of the program, in grid units *)

\* grid resolution: 1/20 pixel, the finest step of WIND_FORCE and of the 0.05 weights
Unit == 20

WIDTH == 800 * Unit
HEIGHT == 600 * Unit
MAX_SPEED == 4 * Unit
VIEW_RADIUS == 50 * Unit
WIND_FORCE == <<2, 1>>     \* (0.1, 0.05) pixels

\* bounds of the model: the size of the flock (50 in the source, line 7) and
\* the number of update_boids calls of a run
NUM_BOIDS == 2
MaxTicks == 2

---------------------------------------------------------------------------
(* Vector arithmetic *)

Abs(n) == IF n < 0 THEN -n ELSE n

Sgn(n) == IF n < 0 THEN -1 ELSE IF n > 0 THEN 1 ELSE 0

\* n / d rounded to the nearest integer (d > 0), halves away from zero
RDiv(n, d) == Sgn(n) * ((2 * Abs(n) + d) \div (2 * d))

VAdd(a, b) == <<a[1] + b[1], a[2] + b[2]>>

VSub(a, b) == <<a[1] - b[1], a[2] - b[2]>>

\* vector * (1/d), each coordinate rounded
VDiv(a, d) == <<RDiv(a[1], d), RDiv(a[2], d)>>

LengthSq(a) == a[1] * a[1] + a[2] * a[2]

Dot(a, b) == a[1] * b[1] + a[2] * b[2]

Cross(a, b) == a[1] * b[2] - a[2] * b[1]

\* x * len / sqrt(lsq), rounded to the nearest integer (lsq >= x*x, lsq > 0)
ScaleCoord(x, lsq, len) ==
    LET q == (4 * x * x * len * len) \div lsq
    IN  Sgn(x) * Cardinality({k \in 1..len : (2 * k - 1) * (2 * k - 1) <= q})

\* Vector2.scale_to_length
scale_to_length(v, len) ==
    <<ScaleCoord(v[1], LengthSq(v), len), ScaleCoord(v[2], LengthSq(v), len)>>

---------------------------------------------------------------------------
(* Boid *)

Boid(p, v) == [position |-> p, velocity |-> v]

\* edges with one if/elif chain for both axes: y is looked at only when x
\* was within its bounds
edges_one_chain(b) ==
    LET x == b.position[1]
        y == b.position[2]
    IN  IF x > WIDTH THEN [b EXCEPT !.position = <<0, y>>]
        ELSE IF x < 0 THEN [b EXCEPT !.position = <<WIDTH, y>>]
        ELSE IF y > HEIGHT THEN [b EXCEPT !.position = <<x, 0>>]
        ELSE IF y < 0 THEN [b EXCEPT !.position = <<x, HEIGHT>>]
        ELSE b

\* Boid.edges: wrap around screen edges
edges(b) ==
    LET x == b.position[1]
        y == b.position[2]
        nx == IF x > WIDTH THEN 0 ELSE IF x < 0 THEN WIDTH ELSE x
        ny == IF y > HEIGHT THEN 0 ELSE IF y < 0 THEN HEIGHT ELSE y
    IN  [b EXCEPT !.position = <<nx, ny>>]

\* Boid.move
move(b) == [b EXCEPT !.position = VAdd(b.position, b.velocity)]

---------------------------------------------------------------------------
(* Utility functions *)

\* distance(b1, b2) < r, decided on the squares
distance_lt(b1, b2, r) == LengthSq(VSub(b2.position, b1.position)) < r * r

\* The half of (-180, 180] in which atan2(v.y, v.x) lies: 1 for (0, 180],
\* 0 for the angle 0 (the positive x axis and the zero vector), -1 for (-180, 0).
Half(v) ==
    IF v[2] > 0 \/ (v[2] = 0 /\ v[1] < 0) THEN 1
    ELSE IF v[2] < 0 THEN -1 ELSE 0

\* atan2 treats the zero vector as the direction of angle 0
Dir(v) == IF v = <<0, 0>> THEN <<1, 0>> ELSE v

\* The angle between two directions, taken in (-180, 180], is at most 135
\* degrees in absolute value: the cosine is at least -sqrt(2)/2.
NormalizedWithin135(s, o) == Dot(Dir(s), Dir(o)) + Abs(Cross(Dir(s), Dir(o))) >= 0

\* Vector2.angle_to returns atan2(o) - atan2(s) in degrees, a value of
\* (-360, 360) that is not brought back into (-180, 180].  The difference
\* equals the normalized angle exactly when it does not cross the cut at
\* +-180 degrees; when it does it is off by 360 and its absolute value
\* exceeds 180.
AngleToUnwrapped(s, o) ==
    LET c == Cross(Dir(s), Dir(o))
    IN  IF c > 0 THEN Half(o) >= Half(s)
        ELSE IF c < 0 THEN Half(o) <= Half(s)
        ELSE TRUE

\* abs(s.angle_to(o)) <= 135
AbsAngleToWithin135(s, o) == AngleToUnwrapped(s, o) /\ NormalizedWithin135(s, o)

\* within_fov(b1, b2), for the two settings of FOV_ANGLE: 270 and -1
within_fov(b1, b2, fov) ==
    IF fov = -1 THEN TRUE
    ELSE AbsAngleToWithin135(b1.velocity, VSub(b2.position, b1.position))

---------------------------------------------------------------------------
(* update_boids *)

RuleIds == {"collision_avoidance", "velocity_matching", "flock_centering"}

Range(s) == {s[k] : k \in 1..Len(s)}

RECURSIVE SumVec(_, _)
\* the sum of f[j] over the indices j of S
SumVec(f, S) ==
    IF S = {} THEN <<0, 0>>
    ELSE LET j == CHOOSE k \in S : TRUE
         IN  VAdd(f[j], SumVec(f, S \ {j}))

\* neighbors without the test b != boid
neighbors_with_self(bs, i, fov) ==
    {j \in 1..Len(bs) : /\ distance_lt(bs[i], bs[j], VIEW_RADIUS)
                        /\ within_fov(bs[i], bs[j], fov)}

\* line 57: the indices of the neighbors of bs[i]
neighbors(bs, i, fov) ==
    {j \in 1..Len(bs) : /\ j # i
                        /\ distance_lt(bs[i], bs[j], VIEW_RADIUS)
                        /\ within_fov(bs[i], bs[j], fov)}

\* the radius of the separation rule, VIEW_RADIUS / 2
AvoidRadius == VIEW_RADIUS \div 2

\* the separation rule without its own radius: every neighbor pushes
avoid_vector_all_neighbors(bs, i, nb, order) ==
    IF nb # {} /\ "collision_avoidance" \in Range(order)
    THEN LET away == [j \in nb |-> VSub(bs[i].position, bs[j].position)]
         IN  VDiv(SumVec(away, nb), 20)
    ELSE <<0, 0>>

\* lines 66-70
avoid_vector(bs, i, nb, order) ==
    IF nb # {} /\ "collision_avoidance" \in Range(order)
    THEN LET close == {j \in nb : distance_lt(bs[i], bs[j], AvoidRadius)}
             away == [j \in close |-> VSub(bs[i].position, bs[j].position)]
         IN  VDiv(SumVec(away, close), 20)
    ELSE <<0, 0>>

\* lines 72-76
match_velocity(bs, i, nb, order) ==
    IF nb # {} /\ "velocity_matching" \in Range(order)
    THEN LET vel == [j \in nb |-> bs[j].velocity]
         IN  VDiv(VDiv(SumVec(vel, nb), Cardinality(nb)), 20)
    ELSE <<0, 0>>

\* lines 78-83
cohesion_vector(bs, i, nb, order) ==
    IF nb # {} /\ "flock_centering" \in Range(order)
    THEN LET pos == [j \in nb |-> bs[j].position]
             center_of_mass == VDiv(SumVec(pos, nb), Cardinality(nb))
         IN  VDiv(VSub(center_of_mass, bs[i].position), 100)
    ELSE <<0, 0>>

\* lines 98-99
limit_speed(v) ==
    IF LengthSq(v) > MAX_SPEED * MAX_SPEED THEN scale_to_length(v, MAX_SPEED) ELSE v

RECURSIVE apply_forces_clamping(_, _, _, _, _)
\* the forces added in order, the speed limited after each of them
apply_forces_clamping(v, order, av, mv, cv) ==
    IF order = <<>> THEN v
    ELSE LET rule == Head(order)
             f == IF rule = "collision_avoidance" THEN av
                  ELSE IF rule = "velocity_matching" THEN mv
                  ELSE IF rule = "flock_centering" THEN cv
                  ELSE <<0, 0>>
         IN  apply_forces_clamping(limit_speed(VAdd(v, f)), Tail(order), av, mv, cv)

RECURSIVE apply_forces(_, _, _, _, _)
\* lines 86-92: the forces are added in the order of rule_order; an
\* identifier that is none of the three adds nothing
apply_forces(v, order, av, mv, cv) ==
    IF order = <<>> THEN v
    ELSE LET rule == Head(order)
             f == IF rule = "collision_avoidance" THEN av
                  ELSE IF rule = "velocity_matching" THEN mv
                  ELSE IF rule = "flock_centering" THEN cv
                  ELSE <<0, 0>>
         IN  apply_forces(VAdd(v, f), Tail(order), av, mv, cv)

\* the wind added after the speed limit instead of before it
new_velocity_wind_last(bs, i, order, fov) ==
    LET nb == neighbors(bs, i, fov)
        v == apply_forces(bs[i].velocity, order,
                          avoid_vector(bs, i, nb, order),
                          match_velocity(bs, i, nb, order),
                          cohesion_vector(bs, i, nb, order))
    IN  VAdd(limit_speed(v), WIND_FORCE)

\* lines 57-99: the new velocity of bs[i], computed from the list as it is
new_velocity(bs, i, order, fov) ==
    LET nb == neighbors(bs, i, fov)
        v == apply_forces(bs[i].velocity, order,
                          avoid_vector(bs, i, nb, order),
                          match_velocity(bs, i, nb, order),
                          cohesion_vector(bs, i, nb, order))
    IN  limit_speed(VAdd(v, WIND_FORCE))

\* the loop body with edges called before move
update_boid_edges_first(bs, i, order, fov) ==
    move(edges([bs[i] EXCEPT !.velocity = new_velocity(bs, i, order, fov)]))

\* lines 57-103: one pass of the loop body for bs[i]
update_boid(bs, i, order, fov) ==
    edges(move([bs[i] EXCEPT !.velocity = new_velocity(bs, i, order, fov)]))

RECURSIVE update_first(_, _, _, _)
\* the list after the first k passes of the for loop of update_boids: each
\* boid is written back into the list before the next one is computed
update_first(bs, k, order, fov) ==
    IF k = 0 THEN bs
    ELSE LET prev == update_first(bs, k - 1, order, fov)
         IN  [prev EXCEPT ![k] = update_boid(prev, k, order, fov)]

update_boids(bs, order, fov) == update_first(bs, Len(bs), order, fov)

---------------------------------------------------------------------------
(* main *)

\* lines 115-119
rule_orders ==
    << <<"collision_avoidance", "velocity_matching", "flock_centering">>,
       <<"velocity_matching", "collision_avoidance", "flock_centering">>,
       <<"flock_centering", "collision_avoidance", "velocity_matching">> >>

\* rule_orders[current_order], the source's index being 0-based
palette_entry(k) == rule_orders[k + 1]

\* Boids as Boid(x, y) can make them: a position of the field, both bounds
\* included (random.randint(0, WIDTH) draws WIDTH too), and a velocity of
\* length MAX_SPEED.
Starts ==
    { Boid(<<100 * Unit, 100 * Unit>>, <<MAX_SPEED, 0>>),
      Boid(<<110 * Unit, 100 * Unit>>, <<-MAX_SPEED, 0>>),
      Boid(<<140 * Unit, 101 * Unit>>, <<-MAX_SPEED, 0>>),
      Boid(<<1 * Unit, 1 * Unit>>, <<-48, -64>>),
      Boid(<<WIDTH, HEIGHT>>, <<0, MAX_SPEED>>) }

Flocks == [1..NUM_BOIDS -> Starts]

\* update_boids takes any list of boids whose speeds are at most MAX_SPEED:
\* two slow boids close to each other, and three of those above
CallStarts ==
    { Boid(<<100 * Unit, 100 * Unit>>, <<Unit, 0>>),
      Boid(<<110 * Unit, 100 * Unit>>, <<-Unit, 0>>),
      Boid(<<140 * Unit, 101 * Unit>>, <<-MAX_SPEED, 0>>),
      Boid(<<1 * Unit, 1 * Unit>>, <<-48, -64>>),
      Boid(<<WIDTH, HEIGHT>>, <<0, MAX_SPEED>>) }

CallFlocks == [1..NUM_BOIDS -> CallStarts]

\* the settings of FOV_ANGLE the source names: 270, and -1 for 360 degrees
FovSettings == {270, -1}

\* main, lines 107-122
Init ==
    /\ boids \in Flocks
    /\ FOV_ANGLE \in FovSettings
    /\ current_order = 0
    /\ running = TRUE
    /\ rule_order = <<>>
    /\ pc = "events"
    /\ ticks = 0

\* the key press with the modulus one short: the last palette entry is
\* never selected
KeySpace_short_cycle ==
    /\ pc = "events"
    /\ current_order' = (current_order + 1) % (Len(rule_orders) - 1)
    /\ UNCHANGED <<boids, FOV_ANGLE, running, rule_order, pc, ticks>>

\* lines 128-129: space pressed
KeySpace ==
    /\ pc = "events"
    /\ current_order' = (current_order + 1) % Len(rule_orders)
    /\ UNCHANGED <<boids, FOV_ANGLE, running, rule_order, pc, ticks>>

\* lines 125-126: the window is closed
Quit ==
    /\ pc = "events"
    /\ running
    /\ running' = FALSE
    /\ UNCHANGED <<boids, FOV_ANGLE, current_order, rule_order, pc, ticks>>

\* line 124: the event queue is drained
EventsDone ==
    /\ pc = "events"
    /\ pc' = "update"
    /\ UNCHANGED <<boids, FOV_ANGLE, current_order, running, rule_order, ticks>>

\* lines 132-140 and the loop test of line 123: the update of the frame runs
\* even when the frame's events held QUIT
Tick ==
    /\ pc = "update"
    /\ ticks < MaxTicks
    /\ rule_order' = palette_entry(current_order)
    /\ boids' = update_boids(boids, palette_entry(current_order), FOV_ANGLE)
    /\ ticks' = ticks + 1
    /\ pc' = IF running THEN "events" ELSE "done"
    /\ UNCHANGED <<FOV_ANGLE, current_order, running>>

Next == KeySpace \/ Quit \/ EventsDone \/ Tick

Spec == Init /\ [][Next]_vars

---------------------------------------------------------------------------
(* update_boids called on its own, with any rule order *)

\* The rule orders handed to update_boids: the palette of main, orders of
\* fewer rules, and malformed ones (a duplicate, an unknown name).
RuleOrderArgs ==
    { rule_orders[1], rule_orders[2], rule_orders[3],
      <<"collision_avoidance">>,
      <<"velocity_matching", "flock_centering">>,
      <<"collision_avoidance", "collision_avoidance">>,
      <<"flock_centering", "no_such_rule">> }

InitCall ==
    /\ boids \in CallFlocks
    /\ FOV_ANGLE \in FovSettings
    /\ current_order = 0
    /\ running = TRUE
    /\ rule_order = <<>>
    /\ pc = "api"
    /\ ticks = 0

\* update_boids(boids, order)
Call(order) ==
    /\ pc = "api"
    /\ ticks < MaxTicks
    /\ rule_order' = order
    /\ boids' = update_boids(boids, order, FOV_ANGLE)
    /\ ticks' = ticks + 1
    /\ UNCHANGED <<FOV_ANGLE, current_order, running, pc>>

NextCall == \E order \in RuleOrderArgs : Call(order)

SpecCall == InitCall /\ [][NextCall]_vars

---------------------------------------------------------------------------
(* Boid.edges called on its own *)

\* A boid as edges finds it in update_boids: moved by its velocity from a
\* position of the field
EdgeStarts ==
    { move(Boid(<<x, y>>, v)) :
        x \in {0, WIDTH \div 2, WIDTH}, y \in {0, HEIGHT \div 2, HEIGHT},
        v \in {<<48, 64>>, <<-48, 64>>, <<48, -64>>, <<-48, -64>>} }

InitEdges ==
    /\ boids \in [1..NUM_BOIDS -> EdgeStarts]
    /\ FOV_ANGLE = 270
    /\ current_order = 0
    /\ running = TRUE
    /\ rule_order = <<>>
    /\ pc = "unit"
    /\ ticks = 0

\* boids[ticks + 1].edges(): the boids are taken in turn
EdgesCall ==
    /\ pc = "unit"
    /\ ticks < Len(boids)
    /\ boids' = [boids EXCEPT ![ticks + 1] = edges(boids[ticks + 1])]
    /\ ticks' = ticks + 1
    /\ UNCHANGED <<FOV_ANGLE, current_order, running, rule_order, pc>>

NextEdges == EdgesCall

SpecEdges == InitEdges /\ [][NextEdges]_vars

---------------------------------------------------------------------------
(* Properties *)

\* a step that makes a call: ticks counts the calls
CallStep == ticks' = ticks + 1

\* the list the spec's step would produce: every boid computed from the
\* list as it was when the tick began
SnapshotStep(bs, order, fov) == [i \in 1..Len(bs) |-> update_boid(bs, i, order, fov)]

\* C1: snapshot consistency of update_boids.  Within one tick every agent's
\* neighbors and forces are computed from the positions and velocities all
\* agents had when the tick began, so the flock after the tick is the
\* snapshot step of the flock before it.
C1_SnapshotConsistency ==
    [][CallStep => boids' = SnapshotStep(boids, rule_order', FOV_ANGLE)]_vars

\* C2, as claimed: after every call of update_boids every agent's speed is
\* at most MAX_SPEED.
C2_SpeedBoundExact ==
    \A i \in 1..Len(boids) : LengthSq(boids[i].velocity) <= MAX_SPEED * MAX_SPEED

\* C2, amended: after every call of update_boids every agent's speed is at
\* most MAX_SPEED up to the rounding of the rescaled coordinates: below
\* MAX_SPEED plus one rounding step.
C2_SpeedBoundRounded ==
    \A i \in 1..Len(boids) :
        LengthSq(boids[i].velocity) <= (MAX_SPEED + 1) * (MAX_SPEED + 1)

\* a run of two calls has left an agent that the clamp rescaled to a length
\* above MAX_SPEED, and one below it
C2_Witness ==
    /\ ticks = 2
    /\ \E i \in 1..Len(boids) : LengthSq(boids[i].velocity) > MAX_SPEED * MAX_SPEED
    /\ \E i \in 1..Len(boids) : LengthSq(boids[i].velocity) < MAX_SPEED * MAX_SPEED

\* C3, as claimed: after every call of update_boids every position lies in
\* [0, WIDTH) x [0, HEIGHT).
C3_PositionHalfOpen ==
    ticks > 0 =>
        \A i \in 1..Len(boids) :
            /\ 0 <= boids[i].position[1] /\ boids[i].position[1] < WIDTH
            /\ 0 <= boids[i].position[2] /\ boids[i].position[2] < HEIGHT

\* C3, amended: after every call of update_boids every position lies in the
\* closed rectangle [0, WIDTH] x [0, HEIGHT].
C3_PositionClosed ==
    ticks > 0 =>
        \A i \in 1..Len(boids) :
            /\ 0 <= boids[i].position[1] /\ boids[i].position[1] <= WIDTH
            /\ 0 <= boids[i].position[2] /\ boids[i].position[2] <= HEIGHT

\* after a tick an agent that left the field on the left sits on the right
\* bound, another that left it on the right sits on the left bound
C3_Witness ==
    /\ ticks > 0
    /\ \E i \in 1..Len(boids) :
        boids[i].position[1] = WIDTH /\ boids[i].velocity[1] < 0
    /\ \E i \in 1..Len(boids) :
        boids[i].position[1] = 0 /\ boids[i].velocity[1] > 0

\* a rule order with an unknown or a repeated identifier
Malformed(order) ==
    \/ \E k \in 1..Len(order) : order[k] \notin RuleIds
    \/ \E k, m \in 1..Len(order) : k # m /\ order[k] = order[m]

\* C4: a call of update_boids with a malformed rule order changes no
\* agent's position or velocity.
C4_MalformedRejected ==
    [][(CallStep /\ Malformed(rule_order')) => boids' = boids]_vars

\* the orders of all three rules
FullOrders ==
    { <<"collision_avoidance", "velocity_matching", "flock_centering">>,
      <<"collision_avoidance", "flock_centering", "velocity_matching">>,
      <<"velocity_matching", "collision_avoidance", "flock_centering">>,
      <<"velocity_matching", "flock_centering", "collision_avoidance">>,
      <<"flock_centering", "collision_avoidance", "velocity_matching">>,
      <<"flock_centering", "velocity_matching", "collision_avoidance">> }

C6_FovNeighborTest ==
    \A i, j \in 1..Len(boids) :
        i # j =>
            ( j \in neighbors(boids, i, FOV_ANGLE)
              <=> /\ distance_lt(boids[i], boids[j], VIEW_RADIUS)
                  /\ \/ FOV_ANGLE = -1
                     \/ NormalizedWithin135(boids[i].velocity,
                                            VSub(boids[j].position, boids[i].position)) )

\* no other agent of the list is within VIEW_RADIUS of bs[i]
Alone(bs, i) ==
    \A j \in 1..Len(bs) : j # i => ~distance_lt(bs[i], bs[j], VIEW_RADIUS)

\* C7: empty-neighbor no-op.  An agent with no other agent within
\* VIEW_RADIUS when it is updated gets, for every rule order, its velocity
\* plus WIND_FORCE, clamped, and its position plus that velocity, wrapped.
C7_EmptyNeighborNoOp ==
    [][CallStep =>
          \A i \in 1..Len(boids) :
              Alone(update_first(boids, i - 1, rule_order', FOV_ANGLE), i) =>
                  LET v == limit_speed(VAdd(boids[i].velocity, WIND_FORCE))
                  IN  boids'[i] = edges(Boid(VAdd(boids[i].position, v), v))]_vars

\* a call with three rules was made on a flock in which an agent was alone
\* when it was updated
C7_Witness ==
    /\ ticks = 1
    /\ Len(rule_order) = 3
    /\ \E f \in CallFlocks :
        /\ boids = update_boids(f, rule_order, FOV_ANGLE)
        /\ \E i \in 1..Len(f) : Alone(update_first(f, i - 1, rule_order, FOV_ANGLE), i)

\* C8: wrap correctness of Boid.edges.  x > WIDTH becomes 0 and x < 0
\* becomes WIDTH, y > HEIGHT becomes 0 and y < 0 becomes HEIGHT, each axis
\* on its own; a coordinate within its bounds stays, and so does the
\* velocity (and every other boid).
C8_WrapCorrectness ==
    [][CallStep =>
          LET b == boids[ticks + 1]
              a == boids'[ticks + 1]
              x == b.position[1]
              y == b.position[2]
          IN  /\ x > WIDTH => a.position[1] = 0
              /\ x < 0 => a.position[1] = WIDTH
              /\ (0 <= x /\ x <= WIDTH) => a.position[1] = x
              /\ y > HEIGHT => a.position[2] = 0
              /\ y < 0 => a.position[2] = HEIGHT
              /\ (0 <= y /\ y <= HEIGHT) => a.position[2] = y
              /\ a.velocity = b.velocity
              /\ \A j \in 1..Len(boids) : j # ticks + 1 => boids'[j] = boids[j]]_vars

\* edges has been called on a boid that had left the field on the right and
\* at the top (its velocity tells), and on one that had stayed inside
C8_Witness ==
    /\ ticks = 2
    /\ boids[1] = Boid(<<0, HEIGHT>>, <<48, -64>>)
    /\ boids[2] = Boid(<<WIDTH \div 2 + 48, HEIGHT \div 2 + 64>>, <<48, 64>>)

\* the two agents of the scenario, and no third agent near them
ScenarioFlock(bs) ==
    /\ bs[1] = Boid(<<100 * Unit, 100 * Unit>>, <<Unit, 0>>)
    /\ bs[2] = Boid(<<110 * Unit, 100 * Unit>>, <<-Unit, 0>>)
    /\ \A j \in 3..Len(bs) :
        ~distance_lt(bs[1], bs[j], 2 * VIEW_RADIUS)

\* C9: the separation sub-radius.  With only collision_avoidance in the
\* rule order an agent's velocity gains 0.05 times the sum of
\* -(pos_b - pos_a) over its neighbors b nearer than VIEW_RADIUS / 2 (and
\* WIND_FORCE, then the clamp); farther neighbors add nothing to it, while
\* with velocity_matching and flock_centering every neighbor counts.  In the
\* scenario (agents at (100,100) and (110,100), velocities (1,0) and (-1,0),
\* FOV_ANGLE = -1, only separation) the left agent's x-velocity ends below
\* and the right agent's above what the tick gives without separation.
C9_SeparationSubRadius ==
    [][CallStep =>
          /\ \A i \in 1..Len(boids) :
              \A seen \in {update_first(boids, i - 1, rule_order', FOV_ANGLE)} :
              \A nb \in {{j \in 1..Len(seen) :
                            /\ j # i
                            /\ distance_lt(seen[i], seen[j], VIEW_RADIUS)
                            /\ within_fov(seen[i], seen[j], FOV_ANGLE)}} :
              \A close \in {{j \in nb : LengthSq(VSub(seen[j].position, seen[i].position))
                                           < (VIEW_RADIUS \div 2) * (VIEW_RADIUS \div 2)}} :
              LET away == [j \in close |-> VSub(seen[i].position, seen[j].position)]
                  vel == [j \in nb |-> seen[j].velocity]
                  pos == [j \in nb |-> seen[j].position]
                  n == Cardinality(nb)
                  v == seen[i].velocity
              IN  /\ rule_order' = <<"collision_avoidance">> =>
                        boids'[i].velocity =
                            limit_speed(VAdd(VAdd(v, VDiv(SumVec(away, close), 20)), WIND_FORCE))
                  /\ (rule_order' = <<"velocity_matching", "flock_centering">> /\ nb # {}) =>
                        boids'[i].velocity =
                            limit_speed(VAdd(VAdd(VAdd(v, VDiv(VDiv(SumVec(vel, nb), n), 20)),
                                                  VDiv(VSub(VDiv(SumVec(pos, nb), n),
                                                            seen[i].position), 100)),
                                             WIND_FORCE))
          /\ ( /\ ScenarioFlock(boids)
               /\ FOV_ANGLE = -1
               /\ rule_order' = <<"collision_avoidance">> ) =>
                 \A free \in {update_boids(boids, <<>>, FOV_ANGLE)} :
                     /\ boids'[1].velocity[1] < free[1].velocity[1]
                     /\ boids'[2].velocity[1] > free[2].velocity[1]]_vars

\* the scenario has been run: only separation, on the two agents, and the
\* tick has changed their velocities as separation does
C9_Witness ==
    /\ ticks = 1
    /\ FOV_ANGLE = -1
    /\ rule_order = <<"collision_avoidance">>
    /\ \E f \in CallFlocks :
        /\ ScenarioFlock(f)
        /\ boids = update_boids(f, rule_order, FOV_ANGLE)
        /\ boids # update_boids(f, <<>>, FOV_ANGLE)

\* C10: the rule-order swap of main.  A space key press moves current_order
\* to the next palette entry, cyclically, and changes no agent; the flock
\* keeps NUM_BOIDS agents; every update_boids call of main gets a palette entry.
C10_RuleOrderSwap ==
    [][/\ current_order' # current_order =>
            /\ current_order' = (current_order + 1) % 3
            /\ boids' = boids
       /\ Len(boids) = NUM_BOIDS /\ Len(boids') = NUM_BOIDS
       /\ CallStep =>
            /\ rule_order' = rule_orders[current_order + 1]
            /\ \E k \in 1..3 : rule_order' = rule_orders[k]]_vars

\* the palette has been cycled through: a tick ran with its third entry and
\* the next key press came back to the first
C10_Witness ==
    /\ current_order = 0
    /\ ticks >= 1
    /\ rule_order = rule_orders[3]
    /\ pc = "events"

====
